---- MODULE Spec2Model ----
(***************************************************************************)
(* Model of packages/hydrogen/src/analytics-manager/AnalyticsProvider.tsx: *)
(* the module-scope analytics event bus (subscribers, registers,           *)
(* waitForReadyQueue; subscribe, publish, publishEvent, register, ready)   *)
(* and the AnalyticsProvider component with its context hook.              *)
(*                                                                         *)
(* JavaScript runs every dispatcher call to completion on one thread, so   *)
(* each call is one action.  Subscriber callbacks are opaque: a callback   *)
(* either returns or throws, and does not call back into the dispatcher.   *)
(***************************************************************************)
EXTENDS Naturals, Integers, Sequences, FiniteSets, TLC

\* ---------------------------------------------------------------- bounds
MaxPublish == 3      \* publish calls explored (each carries a fresh payload)
MaxClosures == 2     \* ready closures handed out by register
MaxMounts == 2       \* mounts of the provider explored
MaxSignals == 2      \* customerPrivacyApiLoaded events explored

\* ------------------------------------------------------- input domains
Keys == {"k1", "k2"}
Events == {"page_viewed", "cart_updated"}
\* a1 and a2 are different function objects with identical source text
Callbacks == {"a1", "a2", "t"}
NoPayload == 0
Payloads == 1..MaxPublish

\* callback.toString()
toString(callback) == IF callback = "t" THEN "T" ELSE "A"

\* what the body of a callback does when it is called
Throws(callback) == callback = "t"

VARIABLES
  subscribers,        \* event -> ordered map (source text -> callback)
  registers,          \* key -> boolean, own properties only
  waitForReadyQueue,  \* ordered map (event -> payload)
  closures,           \* key -> number of ready closures returned for that key
  published,          \* number of publish calls made (payload ids)
  op,                 \* the dispatcher call that ran last
  calls,              \* the callback invocations that call made, in order
  subscribeOrder,     \* history: event -> source texts in order of first subscribe
  pendingHist,        \* history: event -> last payload published while the gate
                      \*   was closed and not yet followed by a gate opening
  superseded,         \* history: payloads replaced by a later closed-gate publish
  pendingOrder,       \* history: event types in order of their first closed-gate
                      \*   publish since the last gate opening
  mounted,            \* an AnalyticsProvider instance is mounted
  mounts,             \* number of mounts so far
  customCanTrack,     \* the canTrack prop of the latest render
  listenerSet,        \* listenerSet.current of the mounted instance
  effectPending,      \* the consent effect is scheduled to run
  replayed,           \* the effect of this mount was replayed with unchanged deps
  attached,           \* listeners attached by the mounted instance
  attachedWithOverride, \* history: a listener was attached while canTrack was supplied
  documentListeners,  \* customerPrivacyApiLoaded listeners on the document
  consentLoaded,      \* useState consentLoaded
  canTrack,           \* useState canTrack
  signals,            \* number of consent signals dispatched
  hook,               \* last useAnalyticsProvider call: where and outcome
  lastSignal,         \* history: detail of the last consent signal the listener
                      \*   of the mounted instance received
  shopProp,           \* the shop prop of the latest render
  shop,               \* useState shop of useShopAnalytics
  shopEffectPending,  \* the shop effect is scheduled to run
  promises,           \* deferred shop value -> pending, fulfilled or rejected
  thenPending,        \* deferred values carrying a then(setShop) reaction of the
                      \*   mounted instance that has not run
  changedWhilePending \* history: the shop prop changed while the deferred
                      \*   value it replaced was unresolved

dispVars == <<subscribers, registers, waitForReadyQueue, closures, published,
              op, calls, subscribeOrder, pendingHist, superseded,
              pendingOrder>>
provVars == <<mounted, mounts, customCanTrack, listenerSet, effectPending,
              replayed, attached, attachedWithOverride, documentListeners,
              consentLoaded, canTrack, signals, hook, lastSignal,
              shopProp, shop, shopEffectPending, promises, thenPending,
              changedWhilePending>>
shopVars == <<shopProp, shop, shopEffectPending, promises, thenPending,
              changedWhilePending>>
vars == <<dispVars, provVars>>

\* ------------------------------------------------------- JS Map helpers
\* Map.prototype.set: a new key is appended, an existing key keeps its place
MapSet(m, k, v) ==
  IF \E i \in 1..Len(m) : m[i].key = k
  THEN [i \in 1..Len(m) |-> IF m[i].key = k THEN [key |-> k, value |-> v] ELSE m[i]]
  ELSE Append(m, [key |-> k, value |-> v])

MapHas(m, k) == \E i \in 1..Len(m) : m[i].key = k

MapGet(m, k) == m[CHOOSE i \in 1..Len(m) : m[i].key = k].value

MapKeys(m) == {m[i].key : i \in 1..Len(m)}

\* ------------------------------------------------------------- registry
areRegistersReadyEmptyFalse(regs) ==
  DOMAIN regs # {} /\ \A key \in DOMAIN regs : regs[key]

areRegistersReady(regs) ==
  \A key \in DOMAIN regs : regs[key]

\* --------------------------------------------------------- publishEvent
NoOp == [name |-> "init", key |-> "-", event |-> "-", payload |-> NoPayload,
         replaced |-> FALSE, error |-> FALSE]

\* callback(payload)
Invoke(callback, event, payload) ==
  [callback |-> callback, event |-> event, payload |-> payload,
   outcome |-> IF Throws(callback) THEN "throw" ELSE "return", logged |-> FALSE]

\* the forEach body without its try/catch
tryCallbackUncaught(callback, event, payload) ==
  LET c == Invoke(callback, event, payload)
  IN [call |-> c, error |-> c.outcome = "throw"]

\* try { callback(payload) } catch (error) { console.error(...) }
tryCallback(callback, event, payload) ==
  LET c == Invoke(callback, event, payload)
  IN [call |-> [c EXCEPT !.logged = (c.outcome = "throw")], error |-> FALSE]

\* Map.forEach over the subscribers of one event; an error that escapes the
\* body ends the iteration and propagates
RECURSIVE forEachCallback(_, _, _)
forEachCallback(m, event, payload) ==
  IF m = <<>> THEN [calls |-> <<>>, error |-> FALSE]
  ELSE LET r == tryCallback(Head(m).value, event, payload)
       IN IF r.error THEN [calls |-> <<r.call>>, error |-> TRUE]
          ELSE LET rest == forEachCallback(Tail(m), event, payload)
               IN [calls |-> <<r.call>> \o rest.calls, error |-> rest.error]

publishEvent(subs, event, payload) ==
  forEachCallback(IF event \in DOMAIN subs THEN subs[event] ELSE <<>>, event, payload)

\* waitForReadyQueue.forEach((queuePayload, queueEvent) => publishEvent(...))
RECURSIVE forEachQueued(_, _)
forEachQueued(subs, q) ==
  IF q = <<>> THEN [calls |-> <<>>, error |-> FALSE]
  ELSE LET r == publishEvent(subs, Head(q).key, Head(q).value)
       IN IF r.error THEN r
          ELSE LET rest == forEachQueued(subs, Tail(q))
               IN [calls |-> r.calls \o rest.calls, error |-> rest.error]

\* ------------------------------------------------------------ subscribe
\* a subscribe that deletes a colliding entry and appends the new one
subscribeTableMoveLast(subs, event, callback) ==
  LET old == IF event \in DOMAIN subs THEN subs[event] ELSE <<>>
      kept == SelectSeq(old, LAMBDA e : e.key # toString(callback))
  IN [x \in (DOMAIN subs) \cup {event} |->
        IF x = event THEN Append(kept, [key |-> toString(callback), value |-> callback])
        ELSE subs[x]]

\* a subscribe keyed by the function object: a callback whose source text is
\* already present is added as one more handler
subscribeTableByReference(subs, event, callback) ==
  LET old == IF event \in DOMAIN subs THEN subs[event] ELSE <<>>
  IN [x \in (DOMAIN subs) \cup {event} |->
        IF x = event
        THEN IF \E i \in 1..Len(old) : old[i].value = callback THEN old
             ELSE Append(old, [key |-> toString(callback), value |-> callback])
        ELSE subs[x]]

\* a subscribe that keeps the handler already stored under the source text
subscribeTableKeepFirst(subs, event, callback) ==
  LET old == IF event \in DOMAIN subs THEN subs[event] ELSE <<>>
  IN [x \in (DOMAIN subs) \cup {event} |->
        IF x = event
        THEN IF MapHas(old, toString(callback)) THEN old
             ELSE MapSet(old, toString(callback), callback)
        ELSE subs[x]]

subscribeTable(subs, event, callback) ==
  LET old == IF event \in DOMAIN subs THEN subs[event] ELSE <<>>
  IN [x \in (DOMAIN subs) \cup {event} |->
        IF x = event THEN MapSet(old, toString(callback), callback) ELSE subs[x]]

\* the callback stored for event under a source text before a call, "-" if none
holder(subs, event, text) ==
  IF event \in DOMAIN subs /\ MapHas(subs[event], text)
  THEN MapGet(subs[event], text)
  ELSE "-"

subscribe(event, callback) ==
  /\ subscribers' = subscribeTable(subscribers, event, callback)
  /\ subscribeOrder' =
       IF \E i \in 1..Len(subscribeOrder[event]) :
            subscribeOrder[event][i] = toString(callback)
       THEN subscribeOrder
       ELSE [subscribeOrder EXCEPT ![event] = Append(@, toString(callback))]
  /\ op' = [NoOp EXCEPT !.name = "subscribe", !.event = event,
                        !.replaced =
                          holder(subscribers, event, toString(callback))
                            \notin {"-", callback}]
  /\ calls' = <<>>
  /\ UNCHANGED <<registers, waitForReadyQueue, closures, published,
                 pendingHist, superseded, pendingOrder>>

\* -------------------------------------------------------------- publish
\* a queue that keeps the first pending payload of a type
queueSetKeepFirst(q, event, payload) ==
  IF MapHas(q, event) THEN q ELSE MapSet(q, event, payload)

\* a queue that moves a republished type to the end
queueSetMoveLast(q, event, payload) ==
  Append(SelectSeq(q, LAMBDA e : e.key # event), [key |-> event, value |-> payload])

queueSet(q, event, payload) == MapSet(q, event, payload)

\* a publish that also delivers while the gate is closed
publishResultEager(regs, subs, q, event, payload) ==
  IF ~areRegistersReady(regs)
  THEN [queue |-> queueSet(q, event, payload),
        calls |-> publishEvent(subs, event, payload).calls, error |-> FALSE]
  ELSE LET r == publishEvent(subs, event, payload)
       IN [queue |-> q, calls |-> r.calls, error |-> r.error]

\* a publish that queues even though the gate is open
publishResultAlwaysQueue(regs, subs, q, event, payload) ==
  [queue |-> queueSet(q, event, payload), calls |-> <<>>, error |-> FALSE]

publishResult(regs, subs, q, event, payload) ==
  IF ~areRegistersReady(regs)
  THEN [queue |-> queueSet(q, event, payload), calls |-> <<>>, error |-> FALSE]
  ELSE LET r == publishEvent(subs, event, payload)
       IN [queue |-> q, calls |-> r.calls, error |-> r.error]

publish(event) ==
  /\ published < MaxPublish
  /\ LET payload == published + 1
         r == publishResult(registers, subscribers, waitForReadyQueue, event, payload)
         closed == \E key \in DOMAIN registers : ~registers[key]
     IN /\ waitForReadyQueue' = r.queue
        /\ calls' = r.calls
        /\ op' = [NoOp EXCEPT !.name = "publish", !.event = event,
                              !.payload = payload, !.error = r.error]
        /\ published' = payload
        /\ pendingHist' = IF closed THEN [pendingHist EXCEPT ![event] = payload]
                          ELSE pendingHist
        /\ superseded' = IF closed /\ pendingHist[event] # NoPayload
                         THEN superseded \cup {pendingHist[event]}
                         ELSE superseded
        /\ pendingOrder' = IF closed /\ pendingHist[event] = NoPayload
                           THEN Append(pendingOrder, event)
                           ELSE pendingOrder
  /\ UNCHANGED <<subscribers, registers, closures, subscribeOrder>>

\* ------------------------------------------------------------- register
\* a register that resets the flag of a key that is already registered
registerTableReset(regs, key) ==
  [k \in (DOMAIN regs) \cup {key} |-> IF k = key THEN FALSE ELSE regs[k]]

registerTable(regs, key) ==
  IF key \notin DOMAIN regs
  THEN [k \in (DOMAIN regs) \cup {key} |-> IF k = key THEN FALSE ELSE regs[k]]
  ELSE regs

\* closures handed out so far, over all keys
RECURSIVE Sum(_, _)
Sum(f, S) ==
  IF S = {} THEN 0
  ELSE LET x == CHOOSE y \in S : TRUE IN f[x] + Sum(f, S \ {x})

register(key) ==
  /\ Sum(closures, Keys) < MaxClosures
  /\ registers' = registerTable(registers, key)
  /\ closures' = [closures EXCEPT ![key] = @ + 1]
  /\ op' = [NoOp EXCEPT !.name = "register", !.key = key]
  /\ calls' = <<>>
  /\ UNCHANGED <<subscribers, waitForReadyQueue, published, subscribeOrder,
                 pendingHist, superseded, pendingOrder>>

\* ---------------------------------------------------------------- ready
\* a ready that flushes without clearing the queue
readyResultNoClear(regs, subs, q, key) ==
  LET regs2 == [regs EXCEPT ![key] = TRUE]
  IN IF areRegistersReady(regs2) /\ Len(q) > 0
     THEN LET r == forEachQueued(subs, q)
          IN [registers |-> regs2, queue |-> q, calls |-> r.calls, error |-> r.error]
     ELSE [registers |-> regs2, queue |-> q, calls |-> <<>>, error |-> FALSE]

\* a ready that flushes only a queue of more than one entry
readyResultOffByOne(regs, subs, q, key) ==
  LET regs2 == [regs EXCEPT ![key] = TRUE]
  IN IF areRegistersReady(regs2) /\ Len(q) > 1
     THEN LET r == forEachQueued(subs, q)
          IN [registers |-> regs2,
              queue |-> IF r.error THEN q ELSE <<>>,
              calls |-> r.calls, error |-> r.error]
     ELSE [registers |-> regs2, queue |-> q, calls |-> <<>>, error |-> FALSE]

readyResult(regs, subs, q, key) ==
  LET regs2 == [regs EXCEPT ![key] = TRUE]
  IN IF areRegistersReady(regs2) /\ Len(q) > 0
     THEN LET r == forEachQueued(subs, q)
          IN [registers |-> regs2,
              queue |-> IF r.error THEN q ELSE <<>>,
              calls |-> r.calls, error |-> r.error]
     ELSE [registers |-> regs2, queue |-> q, calls |-> <<>>, error |-> FALSE]

\* the n-th closure returned for key is called
ready(key, n) ==
  /\ n \in 1..closures[key]
  /\ LET r == readyResult(registers, subscribers, waitForReadyQueue, key)
         opens == (\E k \in DOMAIN registers : ~registers[k])
                  /\ \A k \in DOMAIN registers : (k = key \/ registers[k])
     IN /\ registers' = r.registers
        /\ waitForReadyQueue' = r.queue
        /\ calls' = r.calls
        /\ op' = [NoOp EXCEPT !.name = "ready", !.key = key,
                              !.error = r.error]
        /\ pendingHist' = IF opens THEN [e \in Events |-> NoPayload] ELSE pendingHist
        /\ pendingOrder' = IF opens THEN <<>> ELSE pendingOrder
  /\ UNCHANGED <<subscribers, closures, published, subscribeOrder, superseded>>

\* ---------------------------------------------------- AnalyticsProvider
NoCanTrack == "undefined"
CanTrackProps == {NoCanTrack, "fnA", "fnB"}
Details == {"falsy", "truthy"}

\* the effect body without the listenerSet guard
consentEffectNoRef(custom, ls) ==
  IF custom # NoCanTrack THEN [attach |-> FALSE, listenerSet |-> ls]
  ELSE [attach |-> TRUE, listenerSet |-> TRUE]

\* the body of the consent effect: does it call document.addEventListener
consentEffect(custom, ls) ==
  IF custom # NoCanTrack THEN [attach |-> FALSE, listenerSet |-> ls]
  ELSE IF ls THEN [attach |-> FALSE, listenerSet |-> ls]
  ELSE [attach |-> TRUE, listenerSet |-> TRUE]

\* shop values: null (the default of the prop) and two deferred values
NoShop == "null"
Promises == {"p1", "p2"}
ShopProps == {NoShop} \cup Promises
Outcomes == {"fulfilled", "rejected"}

\* the value a deferred shop fulfils with
Resolved(promise) == IF promise = "p1" THEN "shop1" ELSE "shop2"

\* the body of the shop effect, Promise.resolve(shopProp).then(setShop), with
\* the microtasks it queues: a plain value or a fulfilled promise calls setShop
\* right after the effect, a rejected one never does, a pending one keeps the
\* reaction until it settles
shopEffect(prop, ps, sh, tp) ==
  IF prop \notin Promises THEN [shop |-> prop, thenPending |-> tp]
  ELSE IF ps[prop] = "fulfilled"
       THEN [shop |-> Resolved(prop), thenPending |-> tp]
  ELSE IF ps[prop] = "rejected" THEN [shop |-> sh, thenPending |-> tp]
  ELSE [shop |-> sh, thenPending |-> tp \cup {prop}]

\* first render of a new instance: useRef and the useState initialisers
Mount(prop, shopIn) ==
  /\ ~mounted
  /\ mounts < MaxMounts
  /\ mounted' = TRUE
  /\ mounts' = mounts + 1
  /\ customCanTrack' = prop
  /\ listenerSet' = FALSE
  /\ consentLoaded' = (prop # NoCanTrack)
  /\ canTrack' = IF prop # NoCanTrack THEN prop ELSE "shopifyCanTrack"
  /\ effectPending' = TRUE
  /\ replayed' = FALSE
  /\ attached' = 0
  /\ lastSignal' = "none"
  /\ shopProp' = shopIn
  /\ shop' = NoShop
  /\ shopEffectPending' = TRUE
  /\ thenPending' = {}
  /\ changedWhilePending' = FALSE
  /\ UNCHANGED <<attachedWithOverride, documentListeners, signals, hook,
                 promises>>
  /\ UNCHANGED dispVars

\* a later render; each effect is scheduled when its dependency (customCanTrack,
\* shopProp) changed.  Pending effects are flushed before the next render.
Render(prop, shopIn) ==
  /\ mounted
  /\ ~effectPending
  /\ ~shopEffectPending
  /\ customCanTrack' = prop
  /\ effectPending' = (prop # customCanTrack)
  /\ shopProp' = shopIn
  /\ shopEffectPending' = (shopIn # shopProp)
  /\ changedWhilePending' =
       (changedWhilePending \/ (shopIn # shopProp /\ shopProp \in thenPending))
  /\ UNCHANGED <<shop, promises, thenPending>>
  /\ UNCHANGED <<mounted, mounts, listenerSet, replayed, attached,
                 attachedWithOverride, documentListeners, consentLoaded,
                 canTrack, signals, hook, lastSignal>>
  /\ UNCHANGED dispVars

\* a development-mode replay of the mount effects with refs and state kept
ReplayEffect ==
  /\ mounted
  /\ ~effectPending
  /\ ~shopEffectPending
  /\ ~replayed
  /\ replayed' = TRUE
  /\ effectPending' = TRUE
  /\ shopEffectPending' = TRUE
  /\ UNCHANGED <<shopProp, shop, promises, thenPending, changedWhilePending>>
  /\ UNCHANGED <<mounted, mounts, customCanTrack, listenerSet, attached,
                 attachedWithOverride, documentListeners, consentLoaded,
                 canTrack, signals, hook, lastSignal>>
  /\ UNCHANGED dispVars

\* the passive effects of a commit run together, in declaration order: the
\* shop effect of useShopAnalytics, then the consent effect
RunEffect ==
  /\ mounted
  /\ effectPending \/ shopEffectPending
  /\ effectPending' = FALSE
  /\ shopEffectPending' = FALSE
  /\ IF shopEffectPending
     THEN LET r == shopEffect(shopProp, promises, shop, thenPending)
          IN /\ shop' = r.shop
             /\ thenPending' = r.thenPending
     ELSE UNCHANGED <<shop, thenPending>>
  /\ UNCHANGED <<shopProp, promises, changedWhilePending>>
  /\ LET r == IF effectPending THEN consentEffect(customCanTrack, listenerSet)
              ELSE [attach |-> FALSE, listenerSet |-> listenerSet]
     IN /\ listenerSet' = r.listenerSet
        /\ attached' = IF r.attach THEN attached + 1 ELSE attached
        /\ documentListeners' = IF r.attach THEN documentListeners + 1
                                ELSE documentListeners
        /\ attachedWithOverride' =
             (attachedWithOverride \/ (r.attach /\ customCanTrack # NoCanTrack))
  /\ UNCHANGED <<mounted, mounts, customCanTrack, replayed, consentLoaded,
                 canTrack, signals, hook, lastSignal>>
  /\ UNCHANGED dispVars

\* the listener body, run for a customerPrivacyApiLoaded event
listener(detail) ==
  IF detail = "falsy"
  THEN [consentLoaded |-> FALSE, canTrack |-> "constFalse"]
  ELSE [consentLoaded |-> TRUE, canTrack |-> "shopifyCanTrack"]

\* document.dispatchEvent(customerPrivacyApiLoaded); listeners of unmounted
\* instances call setters that no longer have any effect
Signal(detail) ==
  /\ signals < MaxSignals
  /\ signals' = signals + 1
  /\ IF mounted /\ attached > 0
     THEN /\ consentLoaded' = listener(detail).consentLoaded
          /\ canTrack' = listener(detail).canTrack
          /\ lastSignal' = detail
     ELSE UNCHANGED <<consentLoaded, canTrack, lastSignal>>
  /\ UNCHANGED <<mounted, mounts, customCanTrack, listenerSet, effectPending,
                 replayed, attached, attachedWithOverride, documentListeners, hook>>
  /\ UNCHANGED shopVars
  /\ UNCHANGED dispVars

\* a deferred shop value settles; the reaction then(setShop) of the mounted
\* instance, if one is registered, runs when the value is fulfilled
Settle(promise, outcome) ==
  /\ promises[promise] = "pending"
  /\ promises' = [promises EXCEPT ![promise] = outcome]
  /\ thenPending' = thenPending \ {promise}
  /\ shop' = IF promise \in thenPending /\ outcome = "fulfilled"
             THEN Resolved(promise) ELSE shop
  /\ UNCHANGED <<mounted, mounts, customCanTrack, listenerSet, effectPending,
                 replayed, attached, attachedWithOverride, documentListeners,
                 consentLoaded, canTrack, signals, hook, lastSignal,
                 shopProp, shopEffectPending, changedWhilePending>>
  /\ UNCHANGED dispVars

\* the provider is removed; the effect returns no cleanup
Unmount ==
  /\ mounted
  /\ mounted' = FALSE
  /\ effectPending' = FALSE
  /\ shopEffectPending' = FALSE
  /\ thenPending' = {}
  /\ UNCHANGED <<shopProp, shop, promises, changedWhilePending>>
  /\ UNCHANGED <<mounts, customCanTrack, listenerSet, replayed, attached,
                 attachedWithOverride, documentListeners, consentLoaded,
                 canTrack, signals, hook, lastSignal>>
  /\ UNCHANGED dispVars

\* ------------------------------------------------- useAnalyticsProvider
\* createContext(defaultAnalyticsContext): the default is an object
defaultAnalyticsContext == "defaultAnalyticsContext"

\* JavaScript ToBoolean of a context value
Falsy(value) == value \in {"null", "undefined"}

\* useContext(AnalyticsContext)
useContext(inside) ==
  IF inside THEN "providerValue" ELSE defaultAnalyticsContext

useAnalyticsProvider(inside) ==
  /\ inside => mounted
  /\ LET analyticsContext == useContext(inside)
     IN hook' = [inside |-> inside,
                 result |-> IF Falsy(analyticsContext) THEN "throw"
                            ELSE analyticsContext]
  /\ UNCHANGED <<mounted, mounts, customCanTrack, listenerSet, effectPending,
                 replayed, attached, attachedWithOverride, documentListeners,
                 consentLoaded, canTrack, signals, lastSignal>>
  /\ UNCHANGED shopVars
  /\ UNCHANGED dispVars

\* ------------------------------------------------------- specifications
Init ==
  /\ subscribers = <<>>
  /\ registers = <<>>
  /\ waitForReadyQueue = <<>>
  /\ closures = [key \in Keys |-> 0]
  /\ published = 0
  /\ op = NoOp
  /\ calls = <<>>
  /\ subscribeOrder = [e \in Events |-> <<>>]
  /\ pendingHist = [e \in Events |-> NoPayload]
  /\ superseded = {}
  /\ pendingOrder = <<>>
  /\ mounted = FALSE
  /\ mounts = 0
  /\ customCanTrack = NoCanTrack
  /\ listenerSet = FALSE
  /\ effectPending = FALSE
  /\ replayed = FALSE
  /\ attached = 0
  /\ attachedWithOverride = FALSE
  /\ documentListeners = 0
  /\ consentLoaded = FALSE
  /\ canTrack = "shopifyCanTrack"
  /\ signals = 0
  /\ hook = [inside |-> FALSE, result |-> "none"]
  /\ lastSignal = "none"
  /\ shopProp = NoShop
  /\ shop = NoShop
  /\ shopEffectPending = FALSE
  /\ promises = [promise \in Promises |-> "pending"]
  /\ thenPending = {}
  /\ changedWhilePending = FALSE

SubscribeStep == (\E event \in Events, callback \in Callbacks : subscribe(event, callback)) /\ UNCHANGED provVars
PublishStep == (\E event \in Events : publish(event)) /\ UNCHANGED provVars
RegisterStep == (\E key \in Keys : register(key)) /\ UNCHANGED provVars
ReadyStep == (\E key \in Keys, n \in 1..MaxClosures : ready(key, n)) /\ UNCHANGED provVars

Next ==
  \/ SubscribeStep
  \/ PublishStep
  \/ RegisterStep
  \/ ReadyStep

Spec == Init /\ [][Next]_vars

\* an integration that registered a key and has not yet signalled readiness
\* calls its ready closure
ReadyNotReady(key) ==
  /\ key \in DOMAIN registers
  /\ ~registers[key]
  /\ ready(key, 1)
  /\ UNCHANGED provVars

\* the subscriptions explored for the progress property: one event type has
\* the two handlers, the other has none
LiveSubscribeStep ==
  (\E callback \in {"a1", "t"} : subscribe("page_viewed", callback))
    /\ UNCHANGED provVars

LiveNext ==
  \/ LiveSubscribeStep
  \/ PublishStep
  \/ RegisterStep
  \/ ReadyStep

\* the event bus when every registered integration eventually calls ready()
LiveSpec ==
  Init /\ [][LiveNext]_vars /\ \A key \in Keys : WF_vars(ReadyNotReady(key))

ProviderNext ==
  \/ \E prop \in CanTrackProps, shopIn \in ShopProps : Mount(prop, shopIn)
  \/ \E prop \in CanTrackProps, shopIn \in ShopProps : Render(prop, shopIn)
  \/ ReplayEffect
  \/ RunEffect
  \/ \E detail \in Details : Signal(detail)
  \/ Unmount
  \/ \E promise \in Promises, outcome \in Outcomes : Settle(promise, outcome)
  \/ \E inside \in BOOLEAN : useAnalyticsProvider(inside)

ProviderSpec == Init /\ [][ProviderNext]_vars

\* ------------------------------------------------ vocabulary of the claims
\* some registered key is not ready (stated on the registry itself)
GateClosed(regs) == \E key \in DOMAIN regs : ~regs[key]

\* the callbacks currently subscribed to an event
CallbacksOf(subs, event) ==
  IF event \in DOMAIN subs
  THEN {subs[event][i].value : i \in 1..Len(subs[event])}
  ELSE {}

\* who was called with what, order left aside
CallTriples(cs) ==
  {<<cs[i].callback, cs[i].event, cs[i].payload>> : i \in 1..Len(cs)}

\* one delivery of payload to every callback subscribed to event
Delivery(subs, event, payload) ==
  {<<callback, event, payload>> : callback \in CallbacksOf(subs, event)}

\* calls invokes exactly the expected triples, each once
ExactlyOnce(cs, expected) ==
  CallTriples(cs) = expected /\ Len(cs) = Cardinality(expected)

CallsFor(cs, event) == SelectSeq(cs, LAMBDA c : c.event = event)

\* C1: the ready() call that makes the last not-ready key ready delivers, for
\* every event type then pending, exactly the latest payload published for it
\* while the gate was closed, once to every callback subscribed to that type,
\* and leaves the pending queue empty.
C1_QueueThenFlush ==
  [][(op'.name = "ready" /\ GateClosed(registers) /\ ~GateClosed(registers'))
     => /\ ExactlyOnce(calls',
             UNION {Delivery(subscribers, event, pendingHist[event]) :
                      event \in {e \in Events : pendingHist[e] # NoPayload}})
        /\ waitForReadyQueue' = <<>>]_vars

\* a flush that delivered two event types, one of them republished while
\* pending, and emptied the queue
C1_Witness ==
  /\ op.name = "ready"
  /\ waitForReadyQueue = <<>>
  /\ superseded # {}
  /\ \E i, j \in 1..Len(calls) : calls[i].event # calls[j].event

\* C2: a publish while some registered key is not ready invokes no callback,
\* sets the pending entry of its event type to its payload and leaves the
\* registry, the subscriber table and every other pending entry unchanged.
C2_ClosedPublishFrame ==
  [][(op'.name = "publish" /\ GateClosed(registers))
     => /\ calls' = <<>>
        /\ registers' = registers
        /\ subscribers' = subscribers
        /\ MapHas(waitForReadyQueue', op'.event)
        /\ MapGet(waitForReadyQueue', op'.event) = op'.payload
        /\ \A event \in Events \ {op'.event} :
             /\ MapHas(waitForReadyQueue', event) <=> MapHas(waitForReadyQueue, event)
             /\ MapHas(waitForReadyQueue, event) =>
                  MapGet(waitForReadyQueue', event) = MapGet(waitForReadyQueue, event)]_vars

\* a closed-gate publish of a type that has subscribers, with another type
\* already pending
C2_Witness ==
  /\ op.name = "publish"
  /\ GateClosed(registers)
  /\ CallbacksOf(subscribers, op.event) # {}
  /\ Len(waitForReadyQueue) = 2
  /\ calls = <<>>

\* C3: a publish while every registered key is ready invokes every current
\* subscriber of the event type once with the payload, within the call, and
\* adds nothing to the pending queue.
C3_ImmediateDelivery ==
  [][(op'.name = "publish" /\ ~GateClosed(registers))
     => /\ ExactlyOnce(calls', Delivery(subscribers, op'.event, op'.payload))
        /\ waitForReadyQueue' = waitForReadyQueue
        /\ ~MapHas(waitForReadyQueue', op'.event)]_vars

\* the very first publish, made after registered keys became ready, reached
\* two subscribers
C3_Witness ==
  /\ op.name = "publish"
  /\ published = 1
  /\ DOMAIN registers # {}
  /\ ~GateClosed(registers)
  /\ Len(calls) = 2
  /\ waitForReadyQueue = <<>>

\* C4: the pending queue holds at most one entry per event type; a payload
\* replaced by a later closed-gate publish of its type is never passed to a
\* callback; a flush delivers, per type, only the last payload published.
C4_Overwrite ==
  [][/\ \A i, j \in 1..Len(waitForReadyQueue') :
          waitForReadyQueue'[i].key = waitForReadyQueue'[j].key => i = j
     /\ \A i \in 1..Len(calls') : calls'[i].payload \notin superseded'
     /\ op'.name = "ready" =>
          \A i \in 1..Len(calls') :
            calls'[i].payload = pendingHist[calls'[i].event]]_vars

\* a flush that delivered the second of two closed-gate publishes of one type
C4_Witness ==
  /\ op.name = "ready"
  /\ calls # <<>>
  /\ \E i \in 1..Len(calls) :
       /\ calls[i].payload = 2
       /\ 1 \in superseded

\* C5: register(key) of a registered key changes no readiness flag and adds no
\* entry; each ready closure returned by any register(key) call makes that key
\* ready and touches the flag of no other key.
C5_IdempotentRegister ==
  [][/\ (op'.name = "register" /\ op'.key \in DOMAIN registers)
          => registers' = registers
     /\ op'.name = "register"
          => /\ DOMAIN registers' = DOMAIN registers \cup {op'.key}
             /\ closures'[op'.key] = closures[op'.key] + 1
     /\ op'.name = "ready"
          => /\ closures[op'.key] >= 1
             /\ registers'[op'.key]
             /\ DOMAIN registers' = DOMAIN registers
             /\ \A other \in DOMAIN registers \ {op'.key} :
                  registers'[other] = registers[other]]_vars

\* a key registered again after it became ready is still ready, and two
\* closures for it exist
C5_Witness ==
  /\ op.name = "register"
  /\ closures[op.key] >= 2
  /\ registers[op.key]

\* C6: when a callback throws during a publish or a flush, every subscriber of
\* every delivered event type is still invoked, the flush still delivers every
\* pending entry and clears the queue, and no error reaches the caller.
C6_ErrorIsolation ==
  [][/\ ~op'.error
     /\ (\E i \in 1..Len(calls') : calls'[i].outcome = "throw")
          => /\ \A i \in 1..Len(calls') :
                  calls'[i].outcome = "throw" => calls'[i].logged
             /\ op'.name = "publish"
                  => ExactlyOnce(calls',
                       Delivery(subscribers, op'.event, op'.payload))
             /\ op'.name = "ready"
                  => /\ ExactlyOnce(calls',
                          UNION {Delivery(subscribers, event,
                                          MapGet(waitForReadyQueue, event)) :
                                   event \in MapKeys(waitForReadyQueue)})
                     /\ waitForReadyQueue' = <<>>]_vars

\* a flush in which the first subscriber of a type threw, the second one was
\* still called, and a later pending type was delivered as well
C6_Witness ==
  /\ op.name = "ready"
  /\ ~op.error
  /\ waitForReadyQueue = <<>>
  /\ \E i, j, k \in 1..Len(calls) :
       /\ i < j /\ j < k
       /\ calls[i].outcome = "throw"
       /\ calls[j].outcome = "return"
       /\ calls[j].event = calls[i].event
       /\ calls[k].event # calls[i].event

\* C7: while no key is registered the pending queue is empty and a publish has
\* invoked every current subscriber of its event type.
C7_VacuousReadiness ==
  DOMAIN registers = {}
    => /\ waitForReadyQueue = <<>>
       /\ op.name = "publish"
            => ExactlyOnce(calls, Delivery(subscribers, op.event, op.payload))

\* a publish with nothing registered reached a subscriber
C7_Witness ==
  /\ DOMAIN registers = {}
  /\ op.name = "publish"
  /\ calls # <<>>
  /\ waitForReadyQueue = <<>>

\* C8: in every delivery of an event type the subscribers run one after the
\* other in the order in which their source texts were first subscribed.
C8_SubscriberOrder ==
  \A event \in Events :
    LET cs == CallsFor(calls, event)
    IN cs # <<>> =>
         [i \in 1..Len(cs) |-> toString(cs[i].callback)] = subscribeOrder[event]

\* a flush that called a2, the current holder of source text A, before T for
\* one type
C8_Witness ==
  /\ op.name = "ready"
  /\ \E event \in Events :
       /\ subscribeOrder[event] = <<"A", "T">>
       /\ Len(CallsFor(calls, event)) = 2
       /\ CallsFor(calls, event)[1].callback = "a2"

\* C9: useAnalyticsProvider called outside every AnalyticsProvider throws.
C9_MissingContextThrows ==
  (hook.result # "none" /\ ~hook.inside) => hook.result = "throw"

\* C10: one mounted provider attaches the customerPrivacyApiLoaded listener at
\* most once, and never while a canTrack override is supplied.
C10_ListenerOnce ==
  /\ attached <= 1
  /\ ~attachedWithOverride

\* the effect ran again, replayed, after the listener was attached
C10_Witness ==
  /\ mounted
  /\ attached = 1
  /\ listenerSet
  /\ replayed
  /\ ~effectPending
  /\ customCanTrack = NoCanTrack
  /\ mounts = 1
  /\ signals = 0

\* C11: while a canTrack function is supplied the exposed predicate is that
\* function, whatever signals occurred; otherwise it is the platform detector
\* until the listener receives a consent signal, then the constant-false
\* function after a falsy detail and the platform detector after a truthy one.
C11_TrackingPredicate ==
  mounted =>
    canTrack = IF customCanTrack # NoCanTrack THEN customCanTrack
               ELSE IF lastSignal = "falsy" THEN "constFalse"
               ELSE "shopifyCanTrack"

\* position of an event type in a sequence of event types
IndexOf(seq, event) == CHOOSE i \in 1..Len(seq) : seq[i] = event

\* C12: a flush delivers the pending entries in the order in which their event
\* types were first published while the gate was closed since the previous
\* gate opening; republishing a pending type does not move it.
C12_FlushOrder ==
  [][(op'.name = "ready" /\ calls' # <<>>)
     => \A i, j \in 1..Len(calls') :
          i < j => /\ \E n \in 1..Len(pendingOrder) : pendingOrder[n] = calls'[i].event
                   /\ \E n \in 1..Len(pendingOrder) : pendingOrder[n] = calls'[j].event
                   /\ IndexOf(pendingOrder, calls'[i].event)
                        <= IndexOf(pendingOrder, calls'[j].event)]_vars

\* a flush that delivered a type's third-published payload before another
\* type's second-published one: the republished type kept its first place
C12_Witness ==
  /\ op.name = "ready"
  /\ \E i, j \in 1..Len(calls) :
       /\ i < j
       /\ calls[i].payload = 3
       /\ calls[j].payload = 2
       /\ calls[i].event # calls[j].event

\* the source texts of an ordered map of handlers, in order
Texts(m) == [i \in 1..Len(m) |-> m[i].key]

\* C13: every event type has at most one handler per source text, filed under
\* the text of the stored callback; the number of handlers equals the number of
\* distinct source texts ever subscribed to the type, and no delivery calls two
\* callbacks with the same source text.
C13_SubscriberUniqueness ==
  /\ \A event \in DOMAIN subscribers :
       LET m == subscribers[event]
       IN /\ \A i, j \in 1..Len(m) : m[i].key = m[j].key => i = j
          /\ \A i \in 1..Len(m) : m[i].key = toString(m[i].value)
          /\ Len(m) = Len(subscribeOrder[event])
  /\ \A event \in Events :
       LET cs == CallsFor(calls, event)
       IN \A i, j \in 1..Len(cs) :
            toString(cs[i].callback) = toString(cs[j].callback) => i = j

\* a subscribe of a function object whose source text was already held by
\* another function object, on a type that still has two handlers
C13_Witness ==
  /\ op.name = "subscribe"
  /\ op.replaced
  /\ Len(subscribers[op.event]) = 2
  /\ Len(subscribeOrder[op.event]) = 2

\* the step is a subscribe of a source text subscribed to the type before
TextCollision ==
  /\ op'.name = "subscribe"
  /\ subscribeOrder' = subscribeOrder

\* C14 as stated: a subscribe whose callback has the source text of a callback
\* already subscribed to the event type leaves the subscriber table unchanged.
C14_SubscribeNoOp ==
  [][TextCollision => subscribers' = subscribers]_vars

\* C14 amended: such a subscribe adds no handler and moves none, and every
\* other event type is untouched; when the callback is another function object
\* than the one stored under its source text, exactly that handler is replaced
\* by a function object of the same source text; when it is the stored function
\* object, the table is unchanged.
C14_SubscribeCollision ==
  [][TextCollision
     => LET event == op'.event
            old == subscribers[event]
            new == subscribers'[event]
        IN /\ DOMAIN subscribers' = DOMAIN subscribers
           /\ \A other \in DOMAIN subscribers \ {event} :
                subscribers'[other] = subscribers[other]
           /\ Texts(new) = Texts(old)
           /\ \A i \in 1..Len(new) : toString(new[i].value) = new[i].key
           /\ op'.replaced
                => Cardinality({i \in 1..Len(old) : new[i].value # old[i].value}) = 1
           /\ ~op'.replaced => subscribers' = subscribers]_vars

\* a2 has just taken the place of a1 as the only handler of a type
C14_Witness ==
  /\ op.name = "subscribe"
  /\ op.replaced
  /\ subscribers[op.event] = <<[key |-> "A", value |-> "a2"]>>

\* C15 as stated: once every registered key is ready, the gate stays ready
\* after every later register, ready, subscribe and publish call.
C15_GateMonotonic ==
  [][~GateClosed(registers) => ~GateClosed(registers')]_vars

\* the step registers a key that was not registered before
RegistersNewKey ==
  /\ op'.name = "register"
  /\ op'.key \notin DOMAIN registers

\* C15 amended: a readiness flag never goes back to false, and the gate closes
\* only by a register of a key not registered before, which does close it; once
\* every registered key is ready the gate stays ready after every later ready,
\* subscribe and publish call and every register of a registered key.
C15_GateClosesOnlyByNewKey ==
  [][/\ (~GateClosed(registers) /\ ~RegistersNewKey) => ~GateClosed(registers')
     /\ RegistersNewKey => GateClosed(registers')
     /\ \A key \in DOMAIN registers :
          registers[key] => (key \in DOMAIN registers' /\ registers'[key])]_vars

\* after a flush-free open period with a publish, a ready key was registered
\* again and the gate is still open
C15_Witness ==
  /\ op.name = "register"
  /\ closures[op.key] >= 2
  /\ ~GateClosed(registers)
  /\ published >= 1
  /\ waitForReadyQueue = <<>>

\* C16: every event type with a pending entry was published while the gate was
\* closed since the last gate opening, and its pending payload is the payload
\* of the last of those closed-gate publishes.
C16_PendingWasPublishedClosed ==
  \A i \in 1..Len(waitForReadyQueue) :
    LET entry == waitForReadyQueue[i]
    IN /\ entry.key \in Events
       /\ entry.value \in 1..published
       /\ \E n \in 1..Len(pendingOrder) : pendingOrder[n] = entry.key
       /\ pendingHist[entry.key] = entry.value

\* two types are pending, one of them with a republished payload
C16_Witness ==
  /\ Len(waitForReadyQueue) = 2
  /\ superseded # {}
  /\ op.name = "publish"
  /\ GateClosed(registers)
  /\ published = 3

\* a ready() call has just emptied the queue and called every subscriber of
\* event once, with one payload that no later publish had replaced
Flushed(event) ==
  /\ op.name = "ready"
  /\ waitForReadyQueue = <<>>
  /\ \E payload \in Payloads \ superseded :
       ExactlyOnce(CallsFor(calls, event), Delivery(subscribers, event, payload))

\* C17: a pending event type stays pending over every step that is not a
\* ready() call opening the gate; and when every registered key eventually
\* calls ready(), every pending event type is eventually flushed, with its
\* latest payload, to the subscribers of the type by a ready() that empties
\* the queue.
C17_PendingUntilFlush ==
  /\ [][\A event \in Events :
          (MapHas(waitForReadyQueue, event)
             /\ ~(op'.name = "ready" /\ ~GateClosed(registers')))
          => MapHas(waitForReadyQueue', event)]_vars
  /\ \A event \in Events :
       MapHas(waitForReadyQueue, event) ~> Flushed(event)

\* a flush reached after two keys were registered and a pending payload was
\* republished: the queue is empty and the last payload went to a subscriber
C17_Witness ==
  /\ op.name = "ready"
  /\ DOMAIN registers = Keys
  /\ ~GateClosed(registers)
  /\ waitForReadyQueue = <<>>
  /\ superseded # {}
  /\ \E i \in 1..Len(calls) : calls[i].payload = published

\* C18: between calls, when every registered key is ready the pending queue is
\* empty.
C18_OpenGateEmptyQueue ==
  ~GateClosed(registers) => waitForReadyQueue = <<>>

\* the gate has just been opened by a ready() that flushed a single pending
\* entry to a single subscriber
C18_Witness ==
  /\ op.name = "ready"
  /\ DOMAIN registers # {}
  /\ ~GateClosed(registers)
  /\ Len(calls) = 1
  /\ waitForReadyQueue = <<>>

\* C19: a ready() call made while every registered key is already ready calls
\* no subscriber and changes neither the registry nor the queue.  A flush calls
\* each subscriber once per delivered payload, delivers only payloads that are
\* pending and leaves none of them pending, and a payload that has left the
\* queue never returns to it (new entries carry the payload of the publish that
\* made them), so no pending payload reaches a subscriber twice.
C19_AtMostOnceFlush ==
  [][/\ (op'.name = "ready" /\ ~GateClosed(registers))
          => /\ calls' = <<>>
             /\ registers' = registers
             /\ waitForReadyQueue' = waitForReadyQueue
     /\ op'.name = "ready"
          => /\ Len(calls') = Cardinality(CallTriples(calls'))
             /\ \A i \in 1..Len(calls') :
                  /\ \E n \in 1..Len(waitForReadyQueue) :
                       /\ waitForReadyQueue[n].key = calls'[i].event
                       /\ waitForReadyQueue[n].value = calls'[i].payload
                  /\ \A n \in 1..Len(waitForReadyQueue') :
                       waitForReadyQueue'[n].value # calls'[i].payload
     /\ \A n \in 1..Len(waitForReadyQueue') :
          \/ \E m \in 1..Len(waitForReadyQueue) :
               waitForReadyQueue[m] = waitForReadyQueue'[n]
          \/ /\ op'.name = "publish"
             /\ waitForReadyQueue'[n].value = published'
             /\ published' > published]_vars

\* both publishes were made with the gate closed, the second was flushed, and
\* ready() has been called again since: nothing was called
C19_Witness ==
  /\ op.name = "ready"
  /\ calls = <<>>
  /\ ~GateClosed(registers)
  /\ waitForReadyQueue = <<>>
  /\ published = 2
  /\ superseded = {1}
  /\ CallbacksOf(subscribers, "page_viewed") # {}
  /\ CallbacksOf(subscribers, "cart_updated") # {}

\* the value the latest shop input resolves to, when it has one
LatestResolved ==
  IF shopProp \in Promises THEN Resolved(shopProp) ELSE shopProp

\* every resolution the mounted instance started has completed and the latest
\* input has a resolved value
ResolutionsComplete ==
  /\ mounted
  /\ ~shopEffectPending
  /\ thenPending = {}
  /\ shopProp \in Promises => promises[shopProp] = "fulfilled"

\* C20: when the shop input changed while an earlier deferred value was
\* unresolved, then once every outstanding resolution has completed the shop
\* state is the resolved value of the latest input.
C20_ShopFollowsLatest ==
  (changedWhilePending /\ ResolutionsComplete) => shop = LatestResolved

====
